---- MODULE Spec2Model ----
(***************************************************************************)
(* bevy_pong: the screen state machine (Splash, Title, Gameplay), the      *)
(* Gameplay session (score board, paddles, ball, boundaries with their     *)
(* collision observers), player movement, the score readout, the splash    *)
(* screen's completion edge and the loading bar's fill.                    *)
(*                                                                         *)
(* One frame is: state flush (exit hooks, commit, enter hooks), the fixed  *)
(* step (physics, collision events, progress contributors), the Update     *)
(* schedule (the current screen's update hooks, fades, menus).             *)
(*                                                                         *)
(* Units: positions are in world units, time deltas in whole milliseconds, *)
(* velocities in world units per second.                                   *)
(***************************************************************************)
EXTENDS Integers, Sequences, FiniteSets, TLC

VARIABLES
    screen,      \* the current Screen, "None" before the first flush
    next,        \* the pending transition target, "None" when there is none
    pc,          \* the phase of the frame: "flush", "enter", "fixed", "events",
                 \* "update"
    todo,        \* the hooks of the running phase that have not run yet
    entities,    \* the world: a sequence of entities (index = entity id)
    score,       \* the Score resource
    progress,    \* the ProgressTracker's global combined progress
    last_done,   \* update_splash's Local<u32>
    waited,      \* wait_in_screen's item is done in this activation of Splash
    ui,          \* the children of ScreenRoot.ui, each with its own children
    last,        \* history: the operation that produced this state
    goals,       \* history: Ball collision-starts handled per side boundary
    entered,     \* history: runs of each enter hook in this activation
    fires,       \* history: fade requests of update_splash in this activation
    prevDone,    \* history: `done` as the previous frame left it
    steady,      \* history: total fixed, done rose by one at most once a frame,
                 \* before update_splash read it
    advanced,    \* history: the progress changed in this frame
    firstSplash, \* history: Splash has never been exited
    scoreAtExit, \* history: the score when Gameplay was last exited, until
                 \* the first frame after the next entry ends
    fill,        \* the width of each IsLoadingBarFill node
    fill_last_done \* update_loading_bar_fill's Local<u32>

vars == <<screen, next, pc, todo, entities, score, progress, last_done, ui,
          waited,
          last, goals, entered, fires, prevDone, steady, advanced,
          firstSplash, scoreAtExit, fill, fill_last_done>>

(* ------------------------------ bounds -------------------------------- *)

MaxScore == 2
MaxTotal == 3
MaxDeltaMs == 2
MaxFades == 1
MaxUiChildren == 2
HalfWindowWidth == 640
HalfWindowHeight == 360

(* ----------------------------- constants ------------------------------ *)

Gain == 25000

Screens == {"Splash", "Title", "Gameplay"}

Keys == {"KeyW", "KeyS", "ArrowUp", "ArrowDown"}

\* Values of random::<f32>() in hundredths, on and between the thresholds.
RandomDraws == {10, 25, 60, 75}

(* ------------------------------ entities ------------------------------ *)

\* An entity: its Name, its component set, Transform translation (x, y),
\* LinearVelocity (vx, vy), Text, the observer closure attached to it, the
\* target screen of a fade, and (history) the screen whose hook spawned it.
Ent(name, comps, x, y, vx, vy, text, observer, to) ==
    [name |-> name, comps |-> comps, x |-> x, y |-> y, vx |-> vx, vy |-> vy,
     text |-> text, observer |-> observer, to |-> to, owner |-> "None"]

\* Query<With<c>>: the ids of the entities carrying every component of cs.
With(ents, cs) == {i \in DOMAIN ents : cs \subseteq ents[i].comps}

\* Mutant: the two fields in the wrong order.
Format_swapped(sc) == ToString(sc.player2) \o " - " \o ToString(sc.player1)

\* format!("{} - {}", player1, player2)
Format(sc) == ToString(sc.player1) \o " - " \o ToString(sc.player2)

\* Score::new()
ScoreNew == [player1 |-> 0, player2 |-> 0]

\* The value of the history variable scoreAtExit when there is none.
NoScore == [player1 |-> -1, player2 |-> -1]

\* Entity ids are opaque and no system keeps one across runs, so the world
\* is a multiset of entities; it is kept as a sequence in the order of Rank.
Rank(e) ==
    CASE e.name = "" -> 0
      [] e.name = "Player1" -> 1
      [] e.name = "Player2" -> 2
      [] e.name = "Ball" -> 3
      [] e.name = "BoundaryYStart" -> 4
      [] e.name = "BoundaryYEnd" -> 5
      [] e.name = "BoundaryXStart" -> 6
      [] e.name = "BoundaryXEnd" -> 7
      [] e.to = "Splash" -> 8
      [] e.to = "Title" -> 9
      [] OTHER -> 10

Insert(ents, e) ==
    LET k == Cardinality({i \in DOMAIN ents : Rank(ents[i]) <= Rank(e)})
    IN  SubSeq(ents, 1, k) \o <<e>> \o SubSeq(ents, k + 1, Len(ents))

\* commands.spawn(bundle) for each bundle, stamped with the screen whose
\* enter hook spawns it ("None" for any other system).
RECURSIVE Spawn(_, _, _)
Spawn(ents, bundles, s) ==
    IF bundles = << >> THEN ents
    ELSE Spawn(Insert(ents, [Head(bundles) EXCEPT !.owner = s]),
               Tail(bundles), s)

\* commands.entity(id).despawn()
Despawn(ents, id) == SubSeq(ents, 1, id - 1) \o SubSeq(ents, id + 1, Len(ents))

(* ---------------------------- enter hooks ----------------------------- *)

\* Mutant: the readout starts from a new Score, whatever the resource holds.
add_score_fresh(sc) ==
    << Ent("", {"ScoreBoard", "Text", "DespawnOnExitState"},
           0, 0, 0, 0, Format(ScoreNew), "None", "None") >>

add_score(sc) ==
    << Ent("", {"ScoreBoard", "Text", "DespawnOnExitState"},
           0, 0, 0, 0, Format(sc), "None", "None") >>

add_players ==
    << Ent("Player1",
           {"Player", "Player1", "Collider", "Transform", "RigidBody",
            "LinearVelocity", "DespawnOnExitState"},
           -400, 0, 0, 0, "", "None", "None"),
       Ent("Player2",
           {"Player", "Player2", "Collider", "Transform", "RigidBody",
            "LinearVelocity", "DespawnOnExitState"},
           400, 0, 0, 0, "", "None", "None") >>

\* Mutant: the ball is spawned without DespawnOnExitState.
add_ball_untagged(n) ==
    << Ent("Ball", {"Ball", "Collider", "Transform", "RigidBody",
                    "LinearVelocity"},
           0, 0, IF n < 50 THEN -200 ELSE 200, 150, "", "None", "None") >>

\* Mutant: two balls are served.
add_ball_twice(n) ==
    LET ball == Ent("Ball",
                    {"Ball", "Collider", "Transform", "RigidBody",
                     "LinearVelocity", "DespawnOnExitState"},
                    0, 0, IF n < 50 THEN -200 ELSE 200, 150, "", "None", "None")
    IN  << ball, ball >>

\* n is random::<f32>() in hundredths.  The ball's Transform is the default
\* one (the origin) that its Sprite and RigidBody require.
add_ball(n) ==
    LET direction == IF n < 25 THEN <<-200, -150>>
                     ELSE IF n < 50 THEN <<-200, 150>>
                     ELSE IF n < 75 THEN <<200, -150>>
                     ELSE <<200, 150>>
    IN  << Ent("Ball",
               {"Ball", "Collider", "Transform", "RigidBody",
                "LinearVelocity", "DespawnOnExitState"},
               0, 0, direction[1], direction[2], "", "None", "None") >>

\* Mutant: the boundaries are spawned without DespawnOnExitState.
add_boundaries_untagged(hw, hh) ==
    LET static == {"Collider", "Transform", "RigidBody"}
    IN  << Ent("BoundaryYStart", static, 0, hh + 10, 0, 0, "", "None", "None"),
           Ent("BoundaryYEnd", static, 0, -hh - 10, 0, 0, "", "None", "None"),
           Ent("BoundaryXStart",
               static \cup {"BoundaryXStart", "CollisionEventsEnabled"},
               -hw - 10, 0, 0, 0, "", "BoundaryXStart", "None"),
           Ent("BoundaryXEnd",
               static \cup {"BoundaryXEnd", "CollisionEventsEnabled"},
               hw + 10, 0, 0, 0, "", "BoundaryXEnd", "None") >>

\* hw, hh: half of the primary window's width and height.
add_boundaries(hw, hh) ==
    LET half_boundary == 10
        x_start == hw
        y_start == hh
        static == {"Collider", "Transform", "RigidBody", "DespawnOnExitState"}
    IN  << Ent("BoundaryYStart", static,
               0, y_start + half_boundary, 0, 0, "", "None", "None"),
           Ent("BoundaryYEnd", static,
               0, -y_start - half_boundary, 0, 0, "", "None", "None"),
           Ent("BoundaryXStart",
               static \cup {"BoundaryXStart", "CollisionEventsEnabled"},
               -x_start - half_boundary, 0, 0, 0, "", "BoundaryXStart", "None"),
           Ent("BoundaryXEnd",
               static \cup {"BoundaryXEnd", "CollisionEventsEnabled"},
               x_start + half_boundary, 0, 0, 0, "", "BoundaryXEnd", "None") >>

\* fade_out(screen): the overlay entity that requests the transition when
\* its out-phase ends.
fade_out(to) ==
    << Ent("ScreenFadeOut", {"ScreenFadeOut"}, 0, 0, 0, 0, "", "None", to) >>

(* ------------------------------ systems ------------------------------- *)

\* The ids matched by Query<(&Ball, &mut Transform)>.
BallQuery(ents) == With(ents, {"Ball", "Transform"})

\* Mutant: the responder does not test that the collider is the ball.
observe_x_start_any(ents, sc, collider) ==
    LET scored == [sc EXCEPT !.player2 = @ + 1]
    IN  IF Cardinality(BallQuery(ents)) = 1
        THEN LET b == CHOOSE i \in BallQuery(ents) : TRUE
             IN  [entities |-> [ents EXCEPT ![b].x = 0, ![b].y = 0],
                  score |-> scored]
        ELSE [entities |-> ents, score |-> scored]

\* Mutant: a goal on the start boundary also stops the ball.
observe_x_start_stop_ball(ents, sc, collider) ==
    IF collider \in BallQuery(ents)
    THEN [entities |-> [i \in DOMAIN ents |->
                           IF i \in BallQuery(ents)
                           THEN [ents[i] EXCEPT !.x = 0, !.y = 0,
                                                !.vx = 0, !.vy = 0]
                           ELSE ents[i]],
          score |-> [sc EXCEPT !.player2 = @ + 1]]
    ELSE [entities |-> ents, score |-> sc]

\* The observer closure of BoundaryXStart, run for a collision-start whose
\* colliding entity is `collider`.  query.single_mut() fails, and r! returns,
\* unless exactly one entity matches the query.
observe_x_start(ents, sc, collider) ==
    IF collider \in BallQuery(ents)
    THEN LET scored == [sc EXCEPT !.player2 = @ + 1]
         IN  IF Cardinality(BallQuery(ents)) = 1
             THEN LET b == CHOOSE i \in BallQuery(ents) : TRUE
                  IN  [entities |-> [ents EXCEPT ![b].x = 0, ![b].y = 0],
                       score |-> scored]
             ELSE [entities |-> ents, score |-> scored]
    ELSE [entities |-> ents, score |-> sc]

\* Mutant: the end boundary credits player two, like the start boundary.
observe_x_end_same_side(ents, sc, collider) ==
    IF collider \in BallQuery(ents)
    THEN LET scored == [sc EXCEPT !.player2 = @ + 1]
         IN  IF Cardinality(BallQuery(ents)) = 1
             THEN LET b == CHOOSE i \in BallQuery(ents) : TRUE
                  IN  [entities |-> [ents EXCEPT ![b].x = 0, ![b].y = 0],
                       score |-> scored]
             ELSE [entities |-> ents, score |-> scored]
    ELSE [entities |-> ents, score |-> sc]

\* Mutant: the end boundary scores and leaves the ball where it is.
observe_x_end_no_reset(ents, sc, collider) ==
    IF collider \in BallQuery(ents)
    THEN [entities |-> ents, score |-> [sc EXCEPT !.player1 = @ + 1]]
    ELSE [entities |-> ents, score |-> sc]

\* Mutant: a goal on the end boundary counts double.
observe_x_end_double(ents, sc, collider) ==
    IF collider \in BallQuery(ents)
    THEN [entities |-> [i \in DOMAIN ents |->
                           IF i \in BallQuery(ents)
                           THEN [ents[i] EXCEPT !.x = 0, !.y = 0]
                           ELSE ents[i]],
          score |-> [sc EXCEPT !.player1 = @ + 2]]
    ELSE [entities |-> ents, score |-> sc]

\* The observer closure of BoundaryXEnd.
observe_x_end(ents, sc, collider) ==
    IF collider \in BallQuery(ents)
    THEN LET scored == [sc EXCEPT !.player1 = @ + 1]
         IN  IF Cardinality(BallQuery(ents)) = 1
             THEN LET b == CHOOSE i \in BallQuery(ents) : TRUE
                  IN  [entities |-> [ents EXCEPT ![b].x = 0, ![b].y = 0],
                       score |-> scored]
             ELSE [entities |-> ents, score |-> scored]
    ELSE [entities |-> ents, score |-> sc]

\* time.delta_secs() * 25000., for a delta of dt milliseconds.
Speed(dt) == (dt * Gain) \div 1000

\* Mutant: the key contributions are added to the velocity the player has.
move_players_accumulate(ents, keys, dt) ==
    LET p1 == With(ents, {"Player1"})
        p2 == With(ents, {"Player2"})
        speed == Speed(dt)
        p1_speed == (IF "KeyW" \in keys THEN speed ELSE 0)
                      + (IF "KeyS" \in keys THEN -speed ELSE 0)
        p2_speed == (IF "ArrowUp" \in keys THEN speed ELSE 0)
                      + (IF "ArrowDown" \in keys THEN -speed ELSE 0)
    IN  IF Cardinality(p1) # 1 \/ Cardinality(p2) # 1
        THEN ents
        ELSE [i \in DOMAIN ents |->
                 IF i \in p1 THEN [ents[i] EXCEPT !.vy = @ + p1_speed]
                 ELSE IF i \in p2 THEN [ents[i] EXCEPT !.vy = @ + p2_speed]
                 ELSE ents[i]]

\* Mutant: each player is looked up and updated on its own; a missing player
\* skips only its own update.
move_players_each(ents, keys, dt) ==
    LET p1 == With(ents, {"Player1", "Player", "LinearVelocity"})
        p2 == With(ents, {"Player2", "Player", "LinearVelocity"})
        speed == Speed(dt)
        p1_speed == (IF "KeyW" \in keys THEN speed ELSE 0)
                      + (IF "KeyS" \in keys THEN -speed ELSE 0)
        p2_speed == (IF "ArrowUp" \in keys THEN speed ELSE 0)
                      + (IF "ArrowDown" \in keys THEN -speed ELSE 0)
    IN  [i \in DOMAIN ents |->
            IF Cardinality(p1) = 1 /\ i \in p1
            THEN [ents[i] EXCEPT !.vy = p1_speed]
            ELSE IF Cardinality(p2) = 1 /\ i \in p2
                 THEN [ents[i] EXCEPT !.vy = p2_speed]
                 ELSE ents[i]]

\* move_players.  A Single<Entity, With<PlayerN>> that does not match exactly
\* one entity skips the system; r!(velocity_query.get_mut(id)) returns from
\* the system when the entity is not in Query<&mut LinearVelocity, With<Player>>.
move_players(ents, keys, dt) ==
    LET p1 == With(ents, {"Player1"})
        p2 == With(ents, {"Player2"})
        velocity_query == With(ents, {"LinearVelocity", "Player"})
        speed == Speed(dt)
        p1_speed == (0 + (IF "KeyW" \in keys THEN speed ELSE 0))
                      + (IF "KeyS" \in keys THEN -speed ELSE 0)
        p2_speed == (0 + (IF "ArrowUp" \in keys THEN speed ELSE 0))
                      + (IF "ArrowDown" \in keys THEN -speed ELSE 0)
    IN  IF Cardinality(p1) # 1 \/ Cardinality(p2) # 1
        THEN ents
        ELSE LET player1_id == CHOOSE i \in p1 : TRUE
                 player2_id == CHOOSE i \in p2 : TRUE
             IN  IF player1_id \notin velocity_query
                 THEN ents
                 ELSE LET moved1 == [ents EXCEPT ![player1_id].vy = p1_speed]
                      IN  IF player2_id \notin velocity_query
                          THEN moved1
                          ELSE [moved1 EXCEPT ![player2_id].vy = p2_speed]

\* update_score.  Single<&mut Text, With<ScoreBoard>> skips the system unless
\* exactly one score board exists.
update_score(ents, sc) ==
    LET boards == With(ents, {"Text", "ScoreBoard"})
    IN  IF Cardinality(boards) # 1
        THEN ents
        ELSE LET b == CHOOSE i \in boards : TRUE
             IN  [ents EXCEPT ![b].text = Format(sc)]

\* widget::column_center(children)
column_center(children) == [name |-> "ColumnCenter", children |-> children]

\* spawn_splash_screen: the children of ScreenRoot.ui after
\* commands.entity(screen_root.ui).with_child(column_center(SplashImage)).
spawn_splash_screen(children) ==
    Append(children, column_center(<< "SplashImage" >>))

\* wait_in_screen(FADE_IN_SECS + SPLASH_SCREEN_MIN_SECS): the contributor
\* reports its one item done once the screen has been shown for that long
\* (`elapsed`); `was` tells whether it had reported it before.
wait_in_screen(pr, was, elapsed) ==
    IF elapsed /\ ~was THEN [pr EXCEPT !.done = @ + 1] ELSE pr

\* Mutant: ready one item early.
update_splash_early(ld, pr) ==
    IF ld = pr.done
    THEN [last_done |-> ld, fire |-> FALSE]
    ELSE [last_done |-> pr.done, fire |-> (pr.done + 1 >= pr.total)]

\* update_splash: the new value of its Local and whether it spawns
\* fade_out(Screen::Title).
update_splash(ld, pr) ==
    IF ld = pr.done
    THEN [last_done |-> ld, fire |-> FALSE]
    ELSE [last_done |-> pr.done, fire |-> (pr.done = pr.total)]

\* Val::Auto, the width of Node::DEFAULT, and Val::Percent(num / den).  The
\* f32 quotient is kept as its dividend and divisor; 0 / 0 is NaN.
Auto == [unit |-> "Auto", num |-> 0, den |-> 1]

Percent(num, den) == [unit |-> "Percent", num |-> num, den |-> den]

\* update_loading_bar_fill: the new value of its Local and the widths of the
\* fill nodes.
update_loading_bar_fill(ld, pr, nodes) ==
    IF ld = pr.done
    THEN [last_done |-> ld, fill |-> nodes]
    ELSE [last_done |-> pr.done,
          fill |-> [i \in DOMAIN nodes |-> Percent(100 * pr.done, pr.total)]]

\* Mutant: exiting a screen despawns nothing.
despawn_on_exit_state_nothing(ents) == ents

\* DespawnOnExitState::<Screen>: the tag names the state type, not a screen;
\* exiting any screen despawns every entity that carries it.
despawn_on_exit_state(ents) ==
    SelectSeq(ents, LAMBDA e : "DespawnOnExitState" \notin e.comps)

(* ---------------------------- registration ---------------------------- *)

\* add_systems(StateFlush, Screen::X.on_enter(...))
OnEnter(s) ==
    CASE s = "Gameplay" ->
             {"add_score", "add_players", "add_ball", "add_boundaries"}
      [] s = "Splash" -> {"spawn_splash_screen"}
      [] OTHER -> {}

\* Mutant: the Gameplay update hooks are added to Update without on_update.
OnUpdate_every_screen(s) ==
    IF s = "Splash"
    THEN {"wait_in_screen", "update_splash", "move_players", "update_score"}
    ELSE {"move_players", "update_score"}

\* add_systems(Update, Screen::X.on_update(...)).
OnUpdate(s) ==
    CASE s = "Gameplay" -> {"move_players", "update_score"}
      [] s = "Splash" -> {"wait_in_screen", "update_splash"}
      [] OTHER -> {}

EnterHooks == {"add_score", "add_players", "add_ball", "add_boundaries",
               "spawn_splash_screen"}

Fades(ents) == With(ents, {"ScreenFadeOut"})

\* The role of an entity, as the collision history records it.
Kind(e) ==
    IF "Ball" \in e.comps THEN "Ball"
    ELSE IF "Player" \in e.comps THEN "Player"
    ELSE "Boundary"

\* The vertical velocities of the entities that carry `role`.
VelocitiesOf(ents, role) == {ents[i].vy : i \in With(ents, {role})}

BallPositionsOf(ents) == {<<ents[i].x, ents[i].y>> : i \in BallQuery(ents)}

\* Where the physics step can put the ball.
PlayArea == {<<0, 0>>, <<-HalfWindowWidth, 0>>,
             <<HalfWindowWidth, HalfWindowHeight>>}

(* ------------------------------- state -------------------------------- *)

NoRuns == [h \in EnterHooks |-> 0]

\* App::new().add_plugins(plugin): the Score resource is inserted, the
\* initial screen Splash is entered by the first state flush.
Init ==
    /\ screen = "None"
    /\ next = "Splash"
    /\ pc = "flush"
    /\ todo = {}
    /\ entities = << >>
    /\ score = ScoreNew
    /\ progress = [done |-> 0, total |-> 0]
    /\ last_done = 0
    /\ waited = FALSE
    /\ ui = << >>
    /\ last = [op |-> "init"]
    /\ goals = [start |-> 0, end |-> 0]
    /\ entered = NoRuns
    /\ fires = 0
    /\ prevDone = 0
    /\ steady = FALSE
    /\ advanced = FALSE
    /\ firstSplash = TRUE
    /\ scoreAtExit = NoScore
    /\ fill = << >>
    /\ fill_last_done = 0

world == <<entities, score, ui>>
splashState == <<progress, last_done, waited>>
splashHistory == <<fires, prevDone, steady, advanced>>
barState == <<fill, fill_last_done>>

(* --------------------------- the state flush -------------------------- *)

\* A pending transition is flushed: the exit hooks of the old screen run
\* (despawn_on_exit_state), the new screen becomes current and its enter
\* hooks are due.  Entering Splash re-registers the progress contributors:
\* done is 0 and total is what they registered, one of `totals`: the one
\* item of wait_in_screen and the assets of the loading state.
Flush(totals) ==
    /\ pc = "flush"
    /\ next # "None"
    /\ entities' = IF screen = "None" THEN entities
                   ELSE despawn_on_exit_state(entities)
    /\ screen' = next
    /\ next' = "None"
    /\ pc' = "enter"
    /\ todo' = OnEnter(next)
    /\ IF next = "Splash"
       THEN /\ \E n \in totals : progress' = [done |-> 0, total |-> n]
            /\ waited' = FALSE
       ELSE UNCHANGED <<progress, waited>>
    /\ last' = [op |-> "exit", from |-> screen, to |-> next, was |-> entities]
    /\ entered' = NoRuns
    /\ fires' = 0
    /\ prevDone' = 0
    /\ steady' = (next = "Splash")
    /\ advanced' = FALSE
    /\ firstSplash' = (firstSplash /\ screen # "Splash")
    /\ scoreAtExit' = IF screen = "Gameplay" THEN score ELSE scoreAtExit
    /\ UNCHANGED <<score, last_done, ui, goals, barState>>

\* No transition is pending, or every enter hook has run: the flush ends.
EndFlush ==
    /\ \/ pc = "flush" /\ next = "None"
       \/ pc = "enter" /\ todo = {}
    /\ pc' = "fixed"
    /\ last' = [op |-> "end_flush"]
    /\ UNCHANGED <<screen, next, todo, world, splashState, goals, entered,
                   splashHistory, firstSplash, barState, scoreAtExit>>

\* An enter hook h of the current screen runs and its commands are applied.
RunEnterHook(h, bundles) ==
    /\ pc = "enter"
    /\ h \in todo
    /\ todo' = todo \ {h}
    /\ entities' = Spawn(entities, bundles, screen)
    /\ entered' = [entered EXCEPT ![h] = @ + 1]
    /\ last' = [op |-> h]
    /\ UNCHANGED <<screen, next, pc, score, ui, splashState, goals,
                   splashHistory, firstSplash, barState, scoreAtExit>>

Run_add_score == RunEnterHook("add_score", add_score(score))

Run_add_players == RunEnterHook("add_players", add_players)

Run_add_ball == \E n \in RandomDraws : RunEnterHook("add_ball", add_ball(n))

Run_add_boundaries ==
    RunEnterHook("add_boundaries",
                 add_boundaries(HalfWindowWidth, HalfWindowHeight))

\* spawn_splash_screen attaches a column with the splash image under
\* ScreenRoot.ui.
Run_spawn_splash_screen ==
    /\ pc = "enter"
    /\ "spawn_splash_screen" \in todo
    /\ todo' = todo \ {"spawn_splash_screen"}
    /\ ui' = spawn_splash_screen(ui)
    /\ entered' = [entered EXCEPT !["spawn_splash_screen"] = @ + 1]
    /\ last' = [op |-> "spawn_splash_screen"]
    /\ UNCHANGED <<screen, next, pc, entities, score, splashState, goals,
                   splashHistory, firstSplash, barState, scoreAtExit>>

(* --------------------------- the fixed step --------------------------- *)

\* The physics step, in whatever screen, integrates the ball if there is
\* one: it is somewhere in the play area, and a bounce may have reversed
\* either component of its velocity.  The collision events of the step
\* follow it.
PhysicsStep ==
    /\ pc = "fixed"
    /\ pc' = "events"
    /\ IF BallQuery(entities) = {}
       THEN entities' = entities
       ELSE \E b \in BallQuery(entities), p \in PlayArea, bx, by \in {1, -1} :
               entities' = [entities EXCEPT ![b].x = p[1], ![b].y = p[2],
                                            ![b].vx = bx * @, ![b].vy = by * @]
    /\ last' = [op |-> "physics"]
    /\ UNCHANGED <<screen, next, todo, score, ui, splashState, goals,
                   entered, splashHistory, firstSplash, barState, scoreAtExit>>

\* A collision-start event is delivered to the observer of entity t; the
\* colliding entity is c.
Collision(t, c) ==
    /\ pc = "events"
    /\ entities[t].observer # "None"
    /\ c \in With(entities, {"Collider"}) \ {t}
    /\ LET r == IF entities[t].observer = "BoundaryXStart"
                THEN observe_x_start(entities, score, c)
                ELSE observe_x_end(entities, score, c)
           isBall == "Ball" \in entities[c].comps
       IN  /\ r.score.player1 <= MaxScore
           /\ r.score.player2 <= MaxScore
           /\ entities' = r.entities
           /\ score' = r.score
           /\ goals' = IF ~isBall THEN goals
                       ELSE IF entities[t].observer = "BoundaryXStart"
                            THEN [goals EXCEPT !.start = @ + 1]
                            ELSE [goals EXCEPT !.end = @ + 1]
           /\ last' = [op |-> "collision",
                       target |-> entities[t].observer,
                       collider |-> Kind(entities[c]),
                       isBall |-> isBall,
                       scoreWas |-> score,
                       ballWas |-> BallPositionsOf(entities),
                       entWas |-> entities]
    /\ UNCHANGED <<screen, next, pc, todo, ui, splashState, entered,
                   splashHistory, firstSplash, barState, scoreAtExit>>

CollisionStart == \E t, c \in DOMAIN entities : Collision(t, c)

\* The loading state of Splash reports: done and total only grow, the
\* assets done never exceed the assets to load (all but the item of
\* wait_in_screen) and total never exceeds cap.
Report(cap) ==
    /\ pc = "fixed"
    /\ screen = "Splash"
    /\ \E d \in progress.done..cap, t \in progress.total..cap :
          /\ d - (IF waited THEN 1 ELSE 0) <= t - 1
          /\ <<d, t>> # <<progress.done, progress.total>>
          /\ progress' = [done |-> d, total |-> t]
          /\ steady' = (steady /\ ~advanced /\ t = progress.total
                          /\ d = progress.done + 1)
    /\ advanced' = TRUE
    /\ last' = [op |-> "progress"]
    /\ UNCHANGED <<screen, next, pc, todo, world, last_done, waited, goals,
                   entered, fires, prevDone, firstSplash, barState,
                   scoreAtExit>>

\* The Update schedule starts: the update hooks of the current screen are
\* due, and the systems of `always`, which run whatever the screen.
StartUpdate(always) ==
    /\ pc \in {"fixed", "events"}
    /\ pc' = "update"
    /\ todo' = OnUpdate(screen) \cup always
    /\ last' = [op |-> "begin_update"]
    /\ UNCHANGED <<screen, next, world, splashState, goals, entered,
                   splashHistory, firstSplash, barState, scoreAtExit>>

BeginUpdate == StartUpdate({})

(* ------------------------- the Update schedule ------------------------ *)

\* move_players runs with the keys held in this frame, one of `held`, and
\* the frame's delta, one of `deltas`.
Move(held, deltas) ==
    /\ pc = "update"
    /\ "move_players" \in todo
    /\ todo' = todo \ {"move_players"}
    /\ \E keys \in held, dt \in deltas :
          /\ entities' = move_players(entities, keys, dt)
          /\ last' = [op |-> "move_players", keys |-> keys, dt |-> dt,
                      was |-> <<VelocitiesOf(entities, "Player1"),
                                VelocitiesOf(entities, "Player2")>>]
    /\ UNCHANGED <<screen, next, pc, score, ui, splashState, goals, entered,
                   splashHistory, firstSplash, barState, scoreAtExit>>

Run_update_score ==
    /\ pc = "update"
    /\ "update_score" \in todo
    /\ todo' = todo \ {"update_score"}
    /\ entities' = update_score(entities, score)
    /\ last' = [op |-> "update_score"]
    /\ UNCHANGED <<screen, next, pc, score, ui, splashState, goals, entered,
                   splashHistory, firstSplash, barState, scoreAtExit>>

\* wait_in_screen runs: the time may have elapsed in this frame, and has if
\* it had before.
Run_wait_in_screen ==
    /\ pc = "update"
    /\ "wait_in_screen" \in todo
    /\ todo' = todo \ {"wait_in_screen"}
    /\ \E elapsed \in BOOLEAN :
          /\ waited => elapsed
          /\ progress' = wait_in_screen(progress, waited, elapsed)
          /\ waited' = elapsed
          /\ steady' = IF elapsed /\ ~waited
                       THEN steady /\ ~advanced /\ "update_splash" \in todo
                       ELSE steady
          /\ advanced' = (advanced \/ (elapsed /\ ~waited))
    /\ last' = [op |-> "wait_in_screen"]
    /\ UNCHANGED <<screen, next, pc, world, last_done, goals, entered, fires,
                   prevDone, firstSplash, barState, scoreAtExit>>

Run_update_splash ==
    /\ pc = "update"
    /\ "update_splash" \in todo
    /\ todo' = todo \ {"update_splash"}
    /\ LET r == update_splash(last_done, progress)
       IN  /\ r.fire => Cardinality(Fades(entities)) < MaxFades
           /\ last_done' = r.last_done
           /\ entities' = IF r.fire
                          THEN Spawn(entities, fade_out("Title"), "None")
                          ELSE entities
           /\ fires' = IF r.fire THEN fires + 1 ELSE fires
           /\ last' = [op |-> "update_splash", fired |-> r.fire,
                       prev |-> prevDone]
    /\ UNCHANGED <<screen, next, pc, score, ui, progress, waited, goals,
                   entered, prevDone, steady, advanced, firstSplash, barState,
                   scoreAtExit>>

\* update_loading_bar_fill runs on the fill nodes.
Run_update_loading_bar_fill ==
    /\ pc = "update"
    /\ "update_loading_bar_fill" \in todo
    /\ todo' = todo \ {"update_loading_bar_fill"}
    /\ LET r == update_loading_bar_fill(fill_last_done, progress, fill)
       IN  /\ fill_last_done' = r.last_done
           /\ fill' = r.fill
    /\ last' = [op |-> "update_loading_bar_fill",
                wrote |-> (fill_last_done # progress.done)]
    /\ UNCHANGED <<screen, next, pc, world, splashState, goals, entered,
                   splashHistory, firstSplash, scoreAtExit>>

\* A fade's out-phase ends: it requests the transition to its target (the
\* last request wins) and is despawned.  The fades and the menus share no
\* data with the update hooks of the screens, so their order within the
\* schedule does not matter: the fades run before the hooks, the menus after.
FadeDone ==
    /\ pc = "update"
    /\ OnUpdate(screen) \subseteq todo
    /\ \E f \in Fades(entities) :
          /\ next' = entities[f].to
          /\ entities' = Despawn(entities, f)
          /\ last' = [op |-> "fade_done", to |-> entities[f].to]
    /\ UNCHANGED <<screen, pc, todo, score, ui, splashState, goals, entered,
                   splashHistory, firstSplash, barState, scoreAtExit>>

\* A menu of Title or Gameplay starts a fade to another screen, one of
\* `targets`; to Splash as long as ScreenRoot.ui has room for its column.
Menu(targets) ==
    /\ pc = "update"
    /\ todo = {}
    /\ screen \in {"Title", "Gameplay"}
    /\ Cardinality(Fades(entities)) < MaxFades
    /\ \E t \in targets \ {screen} :
          /\ t = "Splash" => Len(ui) < MaxUiChildren
          /\ entities' = Spawn(entities, fade_out(t), "None")
          /\ last' = [op |-> "menu", to |-> t]
    /\ UNCHANGED <<screen, next, pc, todo, score, ui, splashState, goals,
                   entered, splashHistory, firstSplash, barState, scoreAtExit>>

\* Every update hook has run: the frame ends.
EndUpdate ==
    /\ pc = "update"
    /\ todo = {}
    /\ pc' = "flush"
    /\ advanced' = FALSE
    /\ prevDone' = IF screen = "Splash" THEN progress.done ELSE prevDone
    /\ last' = [op |-> "end_update"]
    /\ scoreAtExit' = IF screen = "Gameplay" THEN NoScore ELSE scoreAtExit
    /\ UNCHANGED <<screen, next, todo, world, splashState, goals, entered,
                   fires, steady, firstSplash, barState>>

(* --------------------------- specifications -------------------------- *)

\* The whole program, with one asset to load on the splash screen, players
\* who hold no key or both push at once for one millisecond frames, and
\* menus that lead to the title screen and to the game.
StateFlush == Flush({2})

Run_move_players == Move({{}, {"KeyW", "ArrowDown"}}, {1})

ProgressAdvance == Report(2)

MenuRequest == Menu({"Title", "Gameplay"})

Next ==
    \/ StateFlush
    \/ EndFlush
    \/ Run_add_score
    \/ Run_add_players
    \/ Run_add_ball
    \/ Run_add_boundaries
    \/ Run_spawn_splash_screen
    \/ PhysicsStep
    \/ CollisionStart
    \/ ProgressAdvance
    \/ BeginUpdate
    \/ Run_move_players
    \/ Run_update_score
    \/ Run_wait_in_screen
    \/ Run_update_splash
    \/ FadeDone
    \/ MenuRequest
    \/ EndUpdate

Spec == Init /\ [][Next]_vars

\* The splash and title screens, with any number of items to load and a
\* player who never starts a game.
SplashFlush == Flush(1..MaxTotal)

SplashProgress == Report(MaxTotal)

SplashMenu == Menu({"Splash"})

NextSplash ==
    \/ SplashFlush
    \/ EndFlush
    \/ Run_spawn_splash_screen
    \/ SplashProgress
    \/ BeginUpdate
    \/ Run_wait_in_screen
    \/ Run_update_splash
    \/ FadeDone
    \/ SplashMenu
    \/ EndUpdate

SpecSplash == Init /\ [][NextSplash]_vars

\* The same, with the app's runner: frame follows frame, and in each frame
\* every schedule runs and every system that is due is run.  What the
\* progress contributors and the player do is left to them.
SplashFairness ==
    /\ WF_vars(SplashFlush)
    /\ WF_vars(EndFlush)
    /\ WF_vars(Run_spawn_splash_screen)
    /\ WF_vars(BeginUpdate)
    /\ WF_vars(Run_wait_in_screen)
    /\ WF_vars(Run_update_splash)
    /\ WF_vars(FadeDone)
    /\ WF_vars(EndUpdate)

SpecSplashLive == Init /\ [][NextSplash]_vars /\ SplashFairness

\* The paddles: any keys and any frame delta, with a ball that never reaches
\* a side boundary and a player who starts the game and stays in it.
InputMenu == Menu({"Gameplay"})

InputMove == Move(SUBSET Keys, 1..MaxDeltaMs)

NextInput ==
    \/ StateFlush
    \/ EndFlush
    \/ Run_add_score
    \/ Run_add_players
    \/ Run_add_ball
    \/ Run_add_boundaries
    \/ Run_spawn_splash_screen
    \/ ProgressAdvance
    \/ BeginUpdate
    \/ InputMove
    \/ Run_update_score
    \/ Run_wait_in_screen
    \/ Run_update_splash
    \/ FadeDone
    \/ InputMenu
    \/ EndUpdate

SpecInput == Init /\ [][NextInput]_vars

\* move_players on the worlds a caller can hand it: each player is absent,
\* present without a LinearVelocity, or as add_players spawns it, moving or
\* at rest.  (The program itself spawns and despawns the two together.)
PlayerIn(bundle, status, v) ==
    CASE status = "absent" -> << >>
      [] status = "bare" ->
             << [bundle EXCEPT !.comps = @ \ {"LinearVelocity"}] >>
      [] OTHER -> << [bundle EXCEPT !.vy = v] >>

MoveWorlds ==
    {Spawn(<< >>,
           PlayerIn(add_players[1], s1, v1) \o PlayerIn(add_players[2], s2, v2),
           "Gameplay") :
        s1 \in {"absent", "bare", "full"}, s2 \in {"absent", "bare", "full"},
        v1 \in {0, -Speed(1)}, v2 \in {0, Speed(1)}}

InitMove ==
    /\ screen = "Gameplay"
    /\ next = "None"
    /\ pc = "update"
    /\ todo = OnUpdate("Gameplay")
    /\ entities \in MoveWorlds
    /\ score = ScoreNew
    /\ progress = [done |-> 1, total |-> 1]
    /\ last_done = 1
    /\ waited = TRUE
    /\ ui = spawn_splash_screen(<< >>)
    /\ last = [op |-> "init"]
    /\ goals = [start |-> 0, end |-> 0]
    /\ entered = [h \in EnterHooks |-> IF h \in OnEnter("Gameplay") THEN 1 ELSE 0]
    /\ fires = 0
    /\ prevDone = 0
    /\ steady = FALSE
    /\ advanced = FALSE
    /\ firstSplash = FALSE
    /\ scoreAtExit = NoScore
    /\ fill = << >>
    /\ fill_last_done = 0

NextMove ==
    \/ EndFlush
    \/ BeginUpdate
    \/ InputMove
    \/ Run_update_score
    \/ EndUpdate

SpecMove == InitMove /\ [][NextMove]_vars

\* The splash and title screens with a loading bar on show: one or two fill
\* nodes as loading_bar() spawns them, and update_loading_bar_fill in every
\* Update schedule.
FillWorlds == {<<Auto>>, <<Auto, Auto>>}

InitFill ==
    /\ screen = "None"
    /\ next = "Splash"
    /\ pc = "flush"
    /\ todo = {}
    /\ entities = << >>
    /\ score = ScoreNew
    /\ progress = [done |-> 0, total |-> 0]
    /\ last_done = 0
    /\ waited = FALSE
    /\ ui = << >>
    /\ last = [op |-> "init"]
    /\ goals = [start |-> 0, end |-> 0]
    /\ entered = NoRuns
    /\ fires = 0
    /\ prevDone = 0
    /\ steady = FALSE
    /\ advanced = FALSE
    /\ firstSplash = TRUE
    /\ scoreAtExit = NoScore
    /\ fill \in FillWorlds
    /\ fill_last_done = 0

FillBeginUpdate == StartUpdate({"update_loading_bar_fill"})

NextFill ==
    \/ SplashFlush
    \/ EndFlush
    \/ Run_spawn_splash_screen
    \/ SplashProgress
    \/ FillBeginUpdate
    \/ Run_wait_in_screen
    \/ Run_update_splash
    \/ Run_update_loading_bar_fill
    \/ FadeDone
    \/ SplashMenu
    \/ EndUpdate

SpecFill == InitFill /\ [][NextFill]_vars

(* ------------------------------- claims ------------------------------- *)

IsGoal == last.op = "collision" /\ last.isBall

\* C1: from the score (0,0), every Ball collision-start on BoundaryXStart
\* adds exactly 1 to player2 and leaves player1, every one on BoundaryXEnd
\* adds exactly 1 to player1 and leaves player2: each field is the number of
\* Ball events its boundary has handled.
C1_GoalsCredited ==
    /\ score.player2 = goals.start
    /\ score.player1 = goals.end
    /\ (IsGoal /\ last.target = "BoundaryXStart") =>
          score = [last.scoreWas EXCEPT !.player2 = @ + 1]
    /\ (IsGoal /\ last.target = "BoundaryXEnd") =>
          score = [last.scoreWas EXCEPT !.player1 = @ + 1]

\* A Ball event on the end boundary after events on both boundaries.
C1_Witness ==
    /\ IsGoal
    /\ last.target = "BoundaryXEnd"
    /\ last.scoreWas = [player1 |-> 1, player2 |-> 1]
    /\ score = [player1 |-> 2, player2 |-> 1]

\* C2: a collision-start on either side boundary whose collider is not the
\* ball leaves both score fields and the ball's position as they were.
C2_OthersIgnored ==
    (last.op = "collision" /\ ~last.isBall) =>
        /\ score = last.scoreWas
        /\ BallPositionsOf(entities) = last.ballWas

\* A player hits the start boundary while the score is not (0,0) and the
\* ball is away from the center.
C2_Witness ==
    /\ last.op = "collision"
    /\ last.collider = "Player"
    /\ last.target = "BoundaryXStart"
    /\ score = [player1 |-> 1, player2 |-> 2]
    /\ BallPositionsOf(entities) = {<<HalfWindowWidth, HalfWindowHeight>>}

\* C3: after a goal event the ball is at the center (0,0), wherever it was.
C3_BallAtCenter == IsGoal => BallPositionsOf(entities) = {<<0, 0>>}

\* A goal on the end boundary with the ball away from the center.
C3_Witness ==
    /\ IsGoal
    /\ last.target = "BoundaryXEnd"
    /\ last.ballWas = {<<HalfWindowWidth, HalfWindowHeight>>}
    /\ BallPositionsOf(entities) = {<<0, 0>>}

\* C4: within one activation of Splash update_splash requests the
\* fade to Title at most once, for every sequence of snapshots in which done
\* and total only grow and done <= total.
C4_AtMostOnce == fires <= 1

\* update_splash has requested the fade and runs again in a later frame in
\* which done = total persists: it returns early.
C4_Witness ==
    /\ screen = "Splash"
    /\ last.op = "update_splash"
    /\ ~last.fired
    /\ fires = 1
    /\ progress.done = progress.total
    /\ last.prev = progress.done

\* The first activation of Splash, with a fixed total of at least one item
\* and done rising by one at most once a frame.
SteadyLoad ==
    /\ screen = "Splash"
    /\ firstSplash
    /\ steady
    /\ progress.total >= 1

\* C5: starting in Splash with a fixed total N >= 1 and done rising one step
\* per frame from 0, update_splash requests the fade to Title on the frame in
\* which done goes from N-1 to N and on no other: one request is made once N
\* has been observed, none before.
C5_FiresOnLastItem ==
    SteadyLoad =>
        /\ last.op = "update_splash" =>
              (last.fired <=> (/\ progress.done = progress.total
                               /\ last.prev = progress.total - 1))
        /\ fires = (IF last_done = progress.total THEN 1 ELSE 0)

\* N = 3: the request is made on the frame where done goes from 2 to 3.
C5_Witness ==
    /\ SteadyLoad
    /\ last.op = "update_splash"
    /\ last.fired
    /\ progress = [done |-> 3, total |-> 3]
    /\ last.prev = 2
    /\ fires = 1

Tagged(e) == "DespawnOnExitState" \in e.comps

GameplayRoles == {"ScoreBoard", "Player", "Ball", "Collider"}

\* C6: when the state machine exits screen S, every live entity whose
\* lifecycle tag belongs to S is destroyed and no other entity is; after
\* exiting Gameplay no ScoreBoard, Player, Ball or boundary remains.
C6_ExitDespawnsOwn ==
    last.op = "exit" =>
        /\ entities = SelectSeq(last.was,
                          LAMBDA e : ~(Tagged(e) /\ e.owner = last.from))
        /\ last.from = "Gameplay" =>
              \A i \in DOMAIN entities :
                  entities[i].comps \cap GameplayRoles = {}

\* Gameplay is exited with its eight tagged entities and a fade in flight:
\* only the fade is left.
C6_Witness ==
    /\ last.op = "exit"
    /\ last.from = "Gameplay"
    /\ Len(last.was) = 9
    /\ Len(entities) = 1
    /\ Fades(entities) = {1}

\* The velocity move_players gives a player whose up and down keys are `up`
\* and `down`, at frame delta dt.
Claimed(keys, up, down, dt) ==
    IF up \in keys /\ down \notin keys THEN Speed(dt)
    ELSE IF down \in keys /\ up \notin keys THEN -Speed(dt)
    ELSE 0

\* C7: after move_players has run in a frame with positive delta, each
\* player's vertical velocity is +speed when only its up key is held, -speed
\* when only its down key is held and 0 when both or neither are, whatever
\* it was before.
C7_VelocityFromKeys ==
    last.op = "move_players" =>
        /\ Speed(last.dt) > 0
        /\ VelocitiesOf(entities, "Player1")
              = {Claimed(last.keys, "KeyW", "KeyS", last.dt)}
        /\ VelocitiesOf(entities, "Player2")
              = {Claimed(last.keys, "ArrowUp", "ArrowDown", last.dt)}

\* Player one was moving down, player two up; now only W is held by player
\* one and both keys by player two, in a frame twice as long.
C7_Witness ==
    /\ last.op = "move_players"
    /\ last.keys = {"KeyW", "ArrowUp", "ArrowDown"}
    /\ last.dt = 2
    /\ last.was = << {-Speed(1)}, {Speed(1)} >>
    /\ VelocitiesOf(entities, "Player1") = {Speed(2)}
    /\ VelocitiesOf(entities, "Player2") = {0}

\* The text of the score boards.
Readouts == {entities[i].text : i \in With(entities, {"ScoreBoard", "Text"})}

\* C9: the score readout is "<p1> - <p2>" of the Score resource: as add_score
\* creates it, and at the end of every Update schedule run while Gameplay is
\* current.
C9_ReadoutShowsScore ==
    ((pc = "flush" /\ screen = "Gameplay") \/ last.op = "add_score") =>
        Readouts = {ToString(score.player1) \o " - " \o ToString(score.player2)}

\* A frame of Gameplay ends after goals for both players.
C9_Witness ==
    /\ pc = "flush"
    /\ screen = "Gameplay"
    /\ last.op = "end_update"
    /\ score = [player1 |-> 2, player2 |-> 1]
    /\ Readouts = {"2 - 1"}

\* The screen each hook is registered for.
HookScreen(h) ==
    IF h \in {"wait_in_screen", "update_splash", "spawn_splash_screen"}
    THEN "Splash"
    ELSE "Gameplay"

UpdateHooks == {"move_players", "update_score", "wait_in_screen",
                "update_splash"}

\* C10: the exit hooks of the old screen have run before any enter hook of
\* the new one (no entity tagged for another screen is left when it runs);
\* each enter hook runs once per activation, only for its screen, and all of
\* them have run before an update hook runs; update hooks run only while
\* their screen is current.
C10_HookOrder ==
    /\ \A h \in EnterHooks :
          /\ entered[h] <= 1
          /\ entered[h] = 1 => screen = HookScreen(h)
    /\ last.op \in EnterHooks =>
          \A i \in DOMAIN entities :
              Tagged(entities[i]) => entities[i].owner = screen
    /\ last.op \in UpdateHooks =>
          /\ screen = HookScreen(last.op)
          /\ \A h \in EnterHooks : HookScreen(h) = screen => entered[h] = 1

\* move_players runs in a frame of Gameplay after a goal: each of the four
\* enter hooks has run once in this activation.
C10_Witness ==
    /\ last.op = "move_players"
    /\ screen = "Gameplay"
    /\ score = [player1 |-> 1, player2 |-> 0]
    /\ Readouts = {"1 - 0"}
    /\ BallPositionsOf(entities) = {<<0, 0>>}
    /\ goals.end = 1
    /\ \A h \in OnEnter("Gameplay") : entered[h] = 1

Located(role) == Cardinality(With(entities, {role})) = 1

Movable(role) ==
    /\ Located(role)
    /\ With(entities, {role}) \subseteq With(entities, {"Player", "LinearVelocity"})

OneMissing(missing, other) ==
    /\ last.op = "move_players"
    /\ With(entities, {missing}) = {}
    /\ Movable(other)

\* C8 as claimed: when one player entity cannot be located while the other
\* can, move_players skips the update of the missing player only and still
\* sets the located player's vertical velocity from that player's keys.
C8_LocatedPlayerMoves ==
    /\ OneMissing("Player1", "Player2") =>
          VelocitiesOf(entities, "Player2")
              = {Claimed(last.keys, "ArrowUp", "ArrowDown", last.dt)}
    /\ OneMissing("Player2", "Player1") =>
          VelocitiesOf(entities, "Player1")
              = {Claimed(last.keys, "KeyW", "KeyS", last.dt)}

\* C8 as amended: when one player entity cannot be located while the other
\* can, move_players does not fail and is skipped as a whole for the frame:
\* the located player's vertical velocity stays what it was.
C8_WholeSystemSkipped ==
    (OneMissing("Player1", "Player2") \/ OneMissing("Player2", "Player1")) =>
        << VelocitiesOf(entities, "Player1"),
           VelocitiesOf(entities, "Player2") >> = last.was

\* Player one is missing, player two is at rest and holds only its up key:
\* its velocity is still 0.
C8_Witness ==
    /\ OneMissing("Player1", "Player2")
    /\ last.keys = {"ArrowUp"}
    /\ last.was = << {}, {0} >>
    /\ VelocitiesOf(entities, "Player2") = {0}

\* The number of entities that carry every component of cs.
Count(cs) == Cardinality(With(entities, cs))

\* The ids of the boundaries: the static colliders.
Boundaries == With(entities, {"Collider"}) \ With(entities, {"LinearVelocity"})

\* The ids of the entities that carry a collision responder.
Responders == {i \in DOMAIN entities : entities[i].observer # "None"}

\* C11: in every update phase in which Gameplay is current there are exactly
\* one ScoreBoard, one Player1, one Player2, one Ball and four boundaries, of
\* which exactly BoundaryXStart and BoundaryXEnd carry a collision responder;
\* each of them carries the lifecycle tag and nothing else is left of
\* earlier activations.
C11_OneOfEach ==
    (pc = "update" /\ screen = "Gameplay") =>
        /\ Count({"ScoreBoard"}) = 1
        /\ Count({"Player1"}) = 1
        /\ Count({"Player2"}) = 1
        /\ Count({"Player"}) = 2
        /\ Count({"Ball"}) = 1
        /\ Cardinality(Boundaries) = 4
        /\ Cardinality(Responders) = 2
        /\ {entities[i].name : i \in Responders}
              = {"BoundaryXStart", "BoundaryXEnd"}
        /\ \A i \in Responders :
              /\ i \in Boundaries
              /\ "CollisionEventsEnabled" \in entities[i].comps
              /\ entities[i].observer = entities[i].name
        /\ \A i \in DOMAIN entities :
              \/ Tagged(entities[i]) /\ entities[i].owner = "Gameplay"
              \/ i \in Fades(entities)
        /\ Len(entities) = 8 + Cardinality(Fades(entities))

\* The update phase of the first frame after Gameplay was left with a goal
\* scored and entered again.
C11_Witness ==
    /\ pc = "update"
    /\ screen = "Gameplay"
    /\ scoreAtExit = [player1 |-> 1, player2 |-> 0]
    /\ last.op = "begin_update"
    /\ Len(entities) = 8

\* C12: leaving Gameplay and entering it again does not change the Score:
\* from the exit, through the other screens, to the end of the flush that
\* enters Gameplay again the score is the score at the exit, and the readout
\* add_score spawns on re-entry shows it.
C12_ScoreCarried ==
    scoreAtExit # NoScore =>
        /\ (screen # "Gameplay" \/ pc = "enter" \/ last.op = "end_flush") =>
              score = scoreAtExit
        /\ last.op = "add_score" =>
              Readouts = {ToString(scoreAtExit.player1) \o " - "
                              \o ToString(scoreAtExit.player2)}

\* Gameplay was left at 2 - 1 and is entered again: add_score has run.
C12_Witness ==
    /\ screen = "Gameplay"
    /\ last.op = "add_score"
    /\ scoreAtExit = [player1 |-> 2, player2 |-> 1]
    /\ score = [player1 |-> 2, player2 |-> 1]
    /\ Readouts = {"2 - 1"}

\* C13: a goal responder changes only the ball's position and one score
\* field: the ball's linear velocity, every other entity (the players'
\* positions and velocities among them) and the other score field are after
\* the responder what they were before it.
C13_OnlyBallAndOneField ==
    IsGoal =>
        /\ DOMAIN entities = DOMAIN last.entWas
        /\ \A i \in DOMAIN entities :
              IF i \in BallQuery(last.entWas)
              THEN entities[i] = [last.entWas[i] EXCEPT !.x = entities[i].x,
                                                        !.y = entities[i].y]
              ELSE entities[i] = last.entWas[i]
        /\ last.target = "BoundaryXStart" =>
              score.player1 = last.scoreWas.player1
        /\ last.target = "BoundaryXEnd" =>
              score.player2 = last.scoreWas.player2

\* A goal on the start boundary while both players move: the ball keeps its
\* velocity, the players theirs.
C13_Witness ==
    /\ IsGoal
    /\ last.target = "BoundaryXStart"
    /\ last.ballWas = {<<-HalfWindowWidth, 0>>}
    /\ \A b \in BallQuery(entities) :
          entities[b].vx # 0 /\ entities[b].vy = last.entWas[b].vy
    /\ VelocitiesOf(entities, "Player1") = {Speed(1)}
    /\ VelocitiesOf(entities, "Player2") = {-Speed(1)}
    /\ score.player2 = last.scoreWas.player2 + 1

\* C14: at the end of every frame in which update_loading_bar_fill has run,
\* the width of every fill node is 100 * done / total percent of the frame's
\* progress snapshot, a value between 0 and 100 computed with total # 0,
\* also when total has changed and done has not.
C14_FillShowsProgress ==
    last.op = "update_loading_bar_fill" =>
        \A i \in DOMAIN fill :
            /\ fill[i].unit = "Percent"
            /\ fill[i].den # 0
            /\ progress.total # 0
            /\ fill[i].num * progress.total = 100 * progress.done * fill[i].den
            /\ 0 <= fill[i].num /\ fill[i].num <= 100 * fill[i].den

\* update_loading_bar_fill has seen done change to 2 of 3 and has set the
\* width of both fill nodes.
C14_Witness ==
    /\ last.op = "update_loading_bar_fill"
    /\ last.wrote
    /\ progress = [done |-> 2, total |-> 3]
    /\ fill = << Percent(200, 3), Percent(200, 3) >>

\* Splash is current and its progress snapshot is complete.
SplashComplete ==
    /\ screen = "Splash"
    /\ pc # "enter"
    /\ progress.done = progress.total

\* C15: in every activation of Splash, the first or a later one, once the
\* progress snapshot is complete and stays complete update_splash eventually
\* requests the fade to Title in that activation, whatever last_done holds
\* and also when done = total in the first frame observed.
C15_EventuallyFades == SplashComplete ~> (fires > 0 \/ ~SplashComplete)

\* Splash has been entered again and update_splash has run on a complete
\* snapshot whose done is the last_done kept from the activation before: no
\* fade is requested.
C15_Witness ==
    /\ SplashComplete
    /\ ~firstSplash
    /\ last.op = "update_splash"
    /\ ~last.fired
    /\ last_done = progress.done
    /\ fires = 0

\* C16: a goal is handled atomically: whenever a side-boundary responder has
\* incremented a score field it has also put the ball at the center; the
\* return after the increment (query.single_mut() failing) is never taken,
\* because exactly one entity matches the ball query.
C16_GoalAtomic ==
    /\ Cardinality(BallQuery(entities)) <= 1
    /\ (last.op = "collision" /\ score # last.scoreWas) =>
          /\ Cardinality(BallQuery(last.entWas)) = 1
          /\ BallQuery(entities) # {}
          /\ \A b \in BallQuery(entities) :
                entities[b].x = 0 /\ entities[b].y = 0

\* The start boundary has credited player two at 1 - 1 with the ball on it:
\* the ball is back at the center.
C16_Witness ==
    /\ last.op = "collision"
    /\ last.target = "BoundaryXStart"
    /\ last.scoreWas = [player1 |-> 1, player2 |-> 1]
    /\ score = [player1 |-> 1, player2 |-> 2]
    /\ last.ballWas = {<<-HalfWindowWidth, 0>>}
    /\ BallPositionsOf(entities) = {<<0, 0>>}

\* C17: in every reachable state player1 + player2 is the number of Ball
\* collision-starts delivered so far to the two side-boundary responders; no
\* step lowers a field, and a step that changes the score is such a delivery
\* and adds exactly 1 to exactly one field: no other system writes the Score.
C17_SingleWriter ==
    /\ [](score.player1 + score.player2 = goals.start + goals.end)
    /\ [][/\ score'.player1 >= score.player1
          /\ score'.player2 >= score.player2
          /\ score' # score =>
                /\ last'.op = "collision"
                /\ last'.isBall
                /\ \/ score' = [score EXCEPT !.player1 = @ + 1]
                   \/ score' = [score EXCEPT !.player2 = @ + 1]]_vars

\* update_score has run after three goals: the Score is what the responders
\* left.
C17_Witness ==
    /\ last.op = "update_score"
    /\ goals = [start |-> 2, end |-> 1]
    /\ score = [player1 |-> 1, player2 |-> 2]
    /\ Readouts = {"1 - 2"}

\* C18: the Score changes only while Gameplay is current: in Splash and in
\* Title, before the first game or after one was left, no entity carries a
\* collision responder and no collider is left, so no collision-start is
\* delivered and the score is what it was at the start or at the exit.
C18_OnlyInGameplay ==
    screen # "Gameplay" =>
        /\ Responders = {}
        /\ With(entities, {"Collider"}) = {}
        /\ last.op # "collision"
        /\ score = (IF scoreAtExit = NoScore THEN ScoreNew ELSE scoreAtExit)

\* A physics step in Title after a game left at 1 - 1: it delivers nothing.
C18_Witness ==
    /\ screen = "Title"
    /\ pc = "events"
    /\ last.op = "physics"
    /\ scoreAtExit = [player1 |-> 1, player2 |-> 1]
    /\ score = [player1 |-> 1, player2 |-> 1]

====
